---------------------------- MODULE Spec2Model ----------------------------
(***************************************************************************)
(* A model of the Cognito authentication server: the request helpers of    *)
(* src/middleware/auth.ts, the token validation handler of                 *)
(* src/handlers/token.ts and the operation handlers of                     *)
(* src/handlers/user.ts (profile handlers and authentication handlers).    *)
(*                                                                         *)
(* One invocation of a handler is: the handler's start action (input       *)
(* validation up to the first awaited provider call, or up to the          *)
(* response when no call is reached), then one resume action per awaited   *)
(* provider call, then Return.  JavaScript values are tagged records, so   *)
(* that undefined, null, strings and numbers stay distinct; a thrown       *)
(* value is an explicit outcome that a try block hands to its catch        *)
(* block.                                                                  *)
(***************************************************************************)
EXTENDS Integers, Sequences, FiniteSets, TLC

VARIABLES
    pc,           \* "idle", "await" (suspended in cognitoClient.send), "done"
    handler,      \* the handler being invoked, "none" when idle
    event,        \* the APIGatewayProxyEvent of the invocation
    jwt,          \* the content of the one decodable token string, JwtString
    currentTime,  \* Math.floor(Date.now() / 1000) as read by validate
    calls,        \* the provider commands sent in this invocation, in order
    answers,      \* what the provider answered to them, in order
    response,     \* the value the handler's promise resolved to
    escaped,      \* TRUE when the handler's promise rejected
    users,        \* the provider's user pool: the usernames that exist
    helperIn,     \* arguments of a request helper applied on its own
    helperOut     \* what the helper returned or threw

vars == <<pc, handler, event, jwt, currentTime, calls, answers, response, escaped,
          users, helperIn, helperOut>>

-----------------------------------------------------------------------------
(* Bounds of the model. *)

\* Times (exp, iat, the clock) range over 0..MaxTime.
MaxTime == 2
\* Free header strings and bearer credentials have at most MaxStrLen characters.
MaxStrLen == 2
\* Lists of required field names have at most MaxRequired entries.
MaxRequired == 3

-----------------------------------------------------------------------------
(* JavaScript values. *)

Undef == [undef |-> TRUE]
Null == [null |-> TRUE]
Str(s) == [str |-> s]
Num(n) == [num |-> n]
Bool(b) == [bool |-> b]
Obj(o) == [obj |-> o]

IsStr(v) == DOMAIN v = {"str"}
IsNum(v) == DOMAIN v = {"num"}
IsObj(v) == DOMAIN v = {"obj"}

\* JavaScript truthiness, as used by !x, x || y and if (x).
Truthy(v) ==
    IF IsStr(v) THEN v.str # ""
    ELSE IF IsNum(v) THEN v.num # 0
    ELSE IF DOMAIN v = {"bool"} THEN v.bool
    ELSE IsObj(v)

\* a || b
Or(a, b) == IF Truthy(a) THEN a ELSE b

\* o[k] on an object or a primitive: undefined for a member it does not have
\* (the handlers read no built-in member of a string or a number).
Member(o, k) == IF IsObj(o) /\ k \in DOMAIN o.obj THEN o.obj[k] ELSE Undef

\* Seeded fault: a comparison in which undefined counts as 0.
JSLessUndefinedAsZero(a, n) == IF IsNum(a) THEN a.num < n ELSE 0 < n

\* a < n for a number n, where a is a number or undefined: undefined converts
\* to NaN, and every comparison with NaN is false.
JSLess(a, n) == IF IsNum(a) THEN a.num < n ELSE FALSE

\* Thrown values. `new Error(m)` has name "Error"; a property read on null or
\* undefined throws a TypeError.
Error(name, message) == [isError |-> TRUE, name |-> name, message |-> message]
NonError == [isError |-> FALSE, name |-> "", message |-> ""]
TypeError == Error("TypeError", "Cannot read properties of null")

Ok(v) == [ok |-> TRUE, val |-> v]
Throw(e) == [ok |-> FALSE, err |-> e]

\* JSON.stringify(data) of an object: members whose value is undefined are
\* left out, member objects are serialized the same way (two levels are all
\* the handlers build).
StringifyFlat(o) ==
    Obj([k \in {m \in DOMAIN o.obj : o.obj[m] # Undef} |-> o.obj[k]])

JSONstringify(data) ==
    [json |-> Obj([k \in {m \in DOMAIN data.obj : data.obj[m] # Undef} |->
                     IF IsObj(data.obj[k]) THEN StringifyFlat(data.obj[k])
                     ELSE data.obj[k]])]

-----------------------------------------------------------------------------
(* src/middleware/auth.ts *)

FixedHeaders ==
    [ContentType |-> "application/json",
     AccessControlAllowOrigin |-> "*",
     AccessControlAllowHeaders |-> "Content-Type,Authorization",
     AccessControlAllowMethods |-> "GET,POST,PUT,DELETE,OPTIONS"]

NoHeaders == [k \in {} |-> ""]

createResponse3(statusCode, data, headers) ==
    [statusCode |-> statusCode,
     headers |-> [k \in DOMAIN FixedHeaders \cup DOMAIN headers |->
                    IF k \in DOMAIN headers THEN headers[k] ELSE FixedHeaders[k]],
     body |-> JSONstringify(data)]

createResponse(statusCode, data) == createResponse3(statusCode, data, NoHeaders)

createErrorResponse4(statusCode, error, message, details) ==
    createResponse(statusCode,
        Obj([error |-> Str(error), message |-> Str(message), details |-> details]))

createErrorResponse(statusCode, error, message) ==
    createErrorResponse4(statusCode, error, message, Undef)

\* The texts a request body is drawn from: no body (null), the empty string,
\* text that is not JSON, the JSON text "null", and the JSON text of an
\* object, whose members are event.body.members (undefined there: no such
\* member in the text).
BodyAbsent == "#absent"
BodyObject == "{..}"
BodyTexts == {BodyAbsent, "", "{bad", "null", BodyObject}

NoMembers == [k \in {} |-> Undef]

\* JSON.parse(event.body || '{}') inside try/catch.
parseRequestBody(ev) ==
    LET text == IF ev.body.text \in {BodyAbsent, ""} THEN "{}" ELSE ev.body.text
    IN  IF text = "{}" THEN Ok(Obj(NoMembers))
        ELSE IF text = "null" THEN Ok(Null)
        ELSE IF text = BodyObject
        THEN Ok(Obj([k \in {m \in DOMAIN ev.body.members : ev.body.members[m] # Undef}
                       |-> ev.body.members[k]]))
        ELSE Throw(Error("Error", "Invalid JSON in request body"))

BearerPrefix == "Bearer "

startsWith(s, p) == Len(s) >= Len(p) /\ SubSeq(s, 1, Len(p)) = p

substring(s, from) == SubSeq(s, from + 1, Len(s))

\* Seeded fault: a getAuthHeader that tests for "Bearer" without the space and
\* cuts one character less.
getAuthHeaderShortPrefix(ev) ==
    LET authHeader == Or(ev.headers.Authorization, ev.headers.authorization)
    IN  IF ~Truthy(authHeader)
        THEN Throw(Error("Error", "Authorization header is required"))
        ELSE IF ~startsWith(authHeader.str, "Bearer")
        THEN Throw(Error("Error", "Authorization header must be a Bearer token"))
        ELSE Ok(Str(substring(authHeader.str, 6)))

getAuthHeader(ev) ==
    LET authHeader == Or(ev.headers.Authorization, ev.headers.authorization)
    IN  IF ~Truthy(authHeader)
        THEN Throw(Error("Error", "Authorization header is required"))
        ELSE IF ~startsWith(authHeader.str, BearerPrefix)
        THEN Throw(Error("Error", "Authorization header must be a Bearer token"))
        ELSE Ok(Str(substring(authHeader.str, 7)))

\* list.join(sep)
RECURSIVE join(_, _)
join(list, sep) ==
    IF list = <<>> THEN ""
    ELSE IF Len(list) = 1 THEN list[1]
    ELSE list[1] \o sep \o join(Tail(list), sep)

\* Seeded fault: a filter that stops at the first missing field.
missingFieldsFirstOnly(data, requiredFields) ==
    LET all == SelectSeq(requiredFields, LAMBDA field : ~Truthy(Member(data, field)))
    IN  IF all = <<>> THEN <<>> ELSE <<all[1]>>

\* requiredFields.filter(field => !dataObj[field])
missingFieldsOf(data, requiredFields) ==
    SelectSeq(requiredFields, LAMBDA field : ~Truthy(Member(data, field)))

\* dataObj[field] throws a TypeError when data is null or undefined and the
\* filter reads at least one field.
validateRequiredFields(data, requiredFields) ==
    IF data \in {Null, Undef}
    THEN IF requiredFields = <<>> THEN Ok(Undef) ELSE Throw(TypeError)
    ELSE LET missingFields == missingFieldsOf(data, requiredFields)
         IN  IF Len(missingFields) > 0
             THEN Throw(Error("Error",
                     "Missing required fields: " \o join(missingFields, ", ")))
             ELSE Ok(Undef)

-----------------------------------------------------------------------------
(* jsonwebtoken's decode, as the handlers use it.  JwtString is the one    *)
(* token string of the model that has the three-part form; what it encodes *)
(* is the state variable jwt: a payload (an object of claims, or a string  *)
(* when the payload is not a JSON object) and whether its signature was    *)
(* made by the provider.  decode reads the payload and never the           *)
(* signature; every other string decodes to null.                          *)

JwtString == "h.p.s"

\* jwt.decode(token, { complete: true })
jwtDecodeComplete(token, tok) ==
    IF token = Str(JwtString)
    THEN Obj([header |-> Obj([alg |-> Str("RS256")]), payload |-> tok.payload,
              signature |-> Str("s")])
    ELSE Null

\* jwt.decode(token)
jwtDecode(token, tok) == IF token = Str(JwtString) THEN tok.payload ELSE Null

-----------------------------------------------------------------------------
(* How a try block, or a whole handler, ends: it returns a value, throws,  *)
(* or suspends in `await cognitoClient.send(command)`.                     *)

Return(value) == [kind |-> "return", value |-> value]
Raise(err) == [kind |-> "throw", err |-> err]
Await(command) == [kind |-> "await", command |-> command]

\* The try block ended by throwing: its catch block decides how the handler ends.
Thrown(c) == c.kind = "throw"

\* What the provider answers to a command: it resolves with an output or
\* rejects with an exception.
Resolve(output) == [kind |-> "resolve", output |-> output]
Reject(err) == [kind |-> "reject", err |-> err]

-----------------------------------------------------------------------------
(* src/handlers/token.ts *)

validateCatch(error) ==
    IF error.isError
    THEN IF error.name = "JsonWebTokenError"
         THEN Return(createErrorResponse(401, "INVALID_TOKEN", "Invalid token format"))
         ELSE IF error.name = "TokenExpiredError"
         THEN Return(createErrorResponse(401, "TOKEN_EXPIRED", "Token has expired"))
         ELSE Return(createErrorResponse4(500, "INTERNAL_ERROR", "Internal server error",
                                          Str(error.message)))
    ELSE Return(createErrorResponse4(500, "INTERNAL_ERROR", "Internal server error",
                                     Str("Unknown error")))

\* Seeded fault: an expiry check that also rejects a token expiring now.
tokenExpiredInclusive(decoded, now) ==
    IsNum(Member(decoded, "exp")) /\ Member(decoded, "exp").num <= now

\* The expiry check of validate: decoded.exp < currentTime.
tokenExpired(decoded, now) == JSLess(Member(decoded, "exp"), now)

\* The type check of validate.
tokenTypeInvalid(decoded) ==
    Member(decoded, "token_use") # Str("access") /\ Member(decoded, "token_use") # Str("id")

validateTry(ev, tok, now) ==
    LET body == parseRequestBody(ev) IN
    IF ~body.ok THEN Raise(body.err)
    ELSE IF body.val = Null THEN Raise(TypeError)
    ELSE IF ~Truthy(Member(body.val, "token"))
    THEN Return(createErrorResponse(400, "MISSING_TOKEN", "Token is required"))
    ELSE IF ~Truthy(jwtDecodeComplete(Member(body.val, "token"), tok))
    THEN Return(createErrorResponse(401, "INVALID_TOKEN", "Invalid token format"))
    ELSE LET decoded == jwtDecode(Member(body.val, "token"), tok) IN
    IF ~Truthy(decoded)
    THEN Return(createErrorResponse(401, "INVALID_TOKEN", "Invalid token"))
    ELSE IF tokenExpired(decoded, now)
    THEN Return(createErrorResponse(401, "TOKEN_EXPIRED", "Token has expired"))
    ELSE IF tokenTypeInvalid(decoded)
    THEN Return(createErrorResponse(401, "INVALID_TOKEN_TYPE", "Invalid token type"))
    ELSE Return(createResponse(200,
            Obj([message |-> Str("Token is valid"),
                 data |-> Obj([sub |-> Member(decoded, "sub"),
                               email |-> Member(decoded, "email"),
                               tokenType |-> Member(decoded, "token_use"),
                               expiresAt |-> Member(decoded, "exp"),
                               issuedAt |-> Member(decoded, "iat")])])))

validateHandler(ev, tok, now) ==
    LET c == validateTry(ev, tok, now) IN IF Thrown(c) THEN validateCatch(c.err) ELSE c

-----------------------------------------------------------------------------
(* src/handlers/user.ts: profile handlers *)

\* decoded.sub throws a TypeError when jwt.decode returned null.
getUserFromToken(token, tok) ==
    LET decoded == jwtDecode(token, tok) IN
    IF decoded = Null THEN Throw(TypeError)
    ELSE Ok([sub |-> Or(Member(decoded, "sub"), Str("")),
             email |-> Or(Member(decoded, "email"),
                          Or(Member(decoded, "username"), Str("")))])

\* const token = getAuthHeader(event); const { email } = getUserFromToken(token);
\* the value is the email, or the try block's throw.
authenticatedEmail(ev, tok) ==
    LET token == getAuthHeader(ev) IN
    IF ~token.ok THEN token
    ELSE LET user == getUserFromToken(token.val, tok) IN
         IF ~user.ok THEN user ELSE Ok(user.val.email)

\* The catch block shared, in text, by getUser, updateUser and deleteUser.
profileCatch(error) ==
    IF error.isError /\ error.name = "UserNotFoundException"
    THEN Return(createErrorResponse(404, "USER_NOT_FOUND", "User not found"))
    ELSE Return(createErrorResponse4(500, "INTERNAL_ERROR", "Internal server error",
                    IF error.isError THEN Str(error.message) ELSE Str("Unknown error")))

\* Seeded fault: a getUser catch block that handles the failure it recognises
\* and rethrows every other one.
getUserCatchRethrowing(error) ==
    IF error.isError /\ error.name = "UserNotFoundException"
    THEN Return(createErrorResponse(404, "USER_NOT_FOUND", "User not found"))
    ELSE Raise(error)

getUserCatch(error) == profileCatch(error)

getUserTry(ev, tok) ==
    LET email == authenticatedEmail(ev, tok) IN
    IF ~email.ok THEN Raise(email.err)
    ELSE Await([op |-> "AdminGetUser", Username |-> email.val])

\* response.UserAttributes?.forEach(attr => { if (attr.Name && attr.Value) ... })
RECURSIVE collectAttributes(_, _)
collectAttributes(attrs, acc) ==
    IF attrs = <<>> THEN acc
    ELSE collectAttributes(Tail(attrs),
            IF Truthy(attrs[1].Name) /\ Truthy(attrs[1].Value)
            THEN [k \in DOMAIN acc \cup {attrs[1].Name.str} |->
                    IF k = attrs[1].Name.str THEN attrs[1].Value ELSE acc[k]]
            ELSE acc)

getUserAfterSend(outcome) ==
    IF outcome.kind = "reject" THEN Raise(outcome.err)
    ELSE LET out == outcome.output
             userAttributes ==
                 Obj(IF out.UserAttributes = Undef THEN NoMembers
                     ELSE collectAttributes(out.UserAttributes.list, NoMembers))
             user ==
                 Obj([sub |-> out.Username,
                      email |-> Member(userAttributes, "email"),
                      firstName |-> Member(userAttributes, "given_name"),
                      lastName |-> Member(userAttributes, "family_name"),
                      emailVerified |->
                          Bool(Member(userAttributes, "email_verified") = Str("true")),
                      enabled |-> Or(out.Enabled, Bool(FALSE)),
                      userStatus |-> out.UserStatus,
                      createdDate |-> out.UserCreateDate,
                      lastModifiedDate |-> out.UserLastModifiedDate])
         IN  Return(createResponse(200,
                 Obj([message |-> Str("User retrieved successfully"), data |-> user])))

getUserStart(ev, tok) ==
    LET c == getUserTry(ev, tok) IN IF Thrown(c) THEN getUserCatch(c.err) ELSE c
getUserResume(outcome) ==
    LET c == getUserAfterSend(outcome) IN IF Thrown(c) THEN getUserCatch(c.err) ELSE c

updateUserCatch(error) == profileCatch(error)

\* The attributes updateUser pushes, in order.
updateAttributes(body) ==
    (IF Member(body, "firstName") # Undef
     THEN <<[Name |-> "given_name", Value |-> Member(body, "firstName")]>> ELSE <<>>)
    \o
    (IF Member(body, "lastName") # Undef
     THEN <<[Name |-> "family_name", Value |-> Member(body, "lastName")]>> ELSE <<>>)
    \o
    (IF Member(body, "email") # Undef
     THEN <<[Name |-> "email", Value |-> Member(body, "email")]>> ELSE <<>>)

\* Seeded fault: an updateUser without the check for an empty attribute list.
updateUserTryUnchecked(ev, tok) ==
    LET email == authenticatedEmail(ev, tok) IN
    IF ~email.ok THEN Raise(email.err)
    ELSE LET body == parseRequestBody(ev) IN
    IF ~body.ok THEN Raise(body.err)
    ELSE IF body.val = Null THEN Raise(TypeError)
    ELSE Await([op |-> "AdminUpdateUserAttributes", Username |-> email.val,
                UserAttributes |-> updateAttributes(body.val)])

updateUserTry(ev, tok) ==
    LET email == authenticatedEmail(ev, tok) IN
    IF ~email.ok THEN Raise(email.err)
    ELSE LET body == parseRequestBody(ev) IN
    IF ~body.ok THEN Raise(body.err)
    ELSE IF body.val = Null THEN Raise(TypeError)
    ELSE LET userAttributes == updateAttributes(body.val) IN
    IF Len(userAttributes) = 0
    THEN Return(createErrorResponse(400, "NO_UPDATES", "No valid fields to update"))
    ELSE Await([op |-> "AdminUpdateUserAttributes", Username |-> email.val,
                UserAttributes |-> userAttributes])

updateUserAfterSend(outcome) ==
    IF outcome.kind = "reject" THEN Raise(outcome.err)
    ELSE Return(createResponse(200, Obj([message |-> Str("User updated successfully")])))

updateUserStart(ev, tok) ==
    LET c == updateUserTry(ev, tok) IN IF Thrown(c) THEN updateUserCatch(c.err) ELSE c
updateUserResume(outcome) ==
    LET c == updateUserAfterSend(outcome) IN IF Thrown(c) THEN updateUserCatch(c.err) ELSE c

deleteUserCatch(error) == profileCatch(error)

deleteUserTry(ev, tok) ==
    LET email == authenticatedEmail(ev, tok) IN
    IF ~email.ok THEN Raise(email.err)
    ELSE Await([op |-> "AdminDeleteUser", Username |-> email.val])

deleteUserAfterSend(outcome) ==
    IF outcome.kind = "reject" THEN Raise(outcome.err)
    ELSE Return(createResponse(200, Obj([message |-> Str("User deleted successfully")])))

deleteUserStart(ev, tok) ==
    LET c == deleteUserTry(ev, tok) IN IF Thrown(c) THEN deleteUserCatch(c.err) ELSE c
deleteUserResume(outcome) ==
    LET c == deleteUserAfterSend(outcome) IN IF Thrown(c) THEN deleteUserCatch(c.err) ELSE c

changePasswordCatch(error) ==
    IF error.isError
    THEN IF error.name = "UserNotFoundException"
         THEN Return(createErrorResponse(404, "USER_NOT_FOUND", "User not found"))
         ELSE IF error.name = "InvalidPasswordException"
         THEN Return(createErrorResponse(400, "INVALID_PASSWORD",
                                         "Password does not meet requirements"))
         ELSE Return(createErrorResponse4(500, "INTERNAL_ERROR", "Internal server error",
                                          Str(error.message)))
    ELSE Return(createErrorResponse4(500, "INTERNAL_ERROR", "Internal server error",
                                     Str("Unknown error")))

\* Seeded fault: a changePassword that hands the old password to the provider
\* along with the new one.
changePasswordTryVerifying(ev, tok) ==
    LET email == authenticatedEmail(ev, tok) IN
    IF ~email.ok THEN Raise(email.err)
    ELSE LET body == parseRequestBody(ev) IN
    IF ~body.ok THEN Raise(body.err)
    ELSE LET checked == validateRequiredFields(body.val, <<"oldPassword", "newPassword">>) IN
    IF ~checked.ok THEN Raise(checked.err)
    ELSE Await([op |-> "AdminSetUserPassword", Username |-> email.val,
                PreviousPassword |-> Member(body.val, "oldPassword"),
                Password |-> Member(body.val, "newPassword"), Permanent |-> TRUE])

changePasswordTry(ev, tok) ==
    LET email == authenticatedEmail(ev, tok) IN
    IF ~email.ok THEN Raise(email.err)
    ELSE LET body == parseRequestBody(ev) IN
    IF ~body.ok THEN Raise(body.err)
    ELSE LET checked == validateRequiredFields(body.val, <<"oldPassword", "newPassword">>) IN
    IF ~checked.ok THEN Raise(checked.err)
    ELSE Await([op |-> "AdminSetUserPassword", Username |-> email.val,
                Password |-> Member(body.val, "newPassword"), Permanent |-> TRUE])

changePasswordAfterSend(outcome) ==
    IF outcome.kind = "reject" THEN Raise(outcome.err)
    ELSE Return(createResponse(200, Obj([message |-> Str("Password changed successfully")])))

changePasswordStart(ev, tok) ==
    LET c == changePasswordTry(ev, tok) IN IF Thrown(c) THEN changePasswordCatch(c.err) ELSE c
changePasswordResume(outcome) ==
    LET c == changePasswordAfterSend(outcome) IN IF Thrown(c) THEN changePasswordCatch(c.err) ELSE c

-----------------------------------------------------------------------------
(* src/handlers/user.ts: authentication handlers *)

\* Seeded fault: a login catch block that reports an exception it does not
\* recognise under the exception's own name.
loginCatchLeaking(error) ==
    IF error.isError
    THEN IF error.name = "UserNotConfirmedException"
         THEN Return(createErrorResponse(400, "USER_NOT_CONFIRMED", "User email not confirmed"))
         ELSE IF error.name = "NotAuthorizedException"
         THEN Return(createErrorResponse(401, "INVALID_CREDENTIALS", "Invalid email or password"))
         ELSE IF error.name = "UserNotFoundException"
         THEN Return(createErrorResponse(404, "USER_NOT_FOUND", "User not found"))
         ELSE Return(createErrorResponse4(500, error.name, "Internal server error",
                                          Str(error.message)))
    ELSE Return(createErrorResponse4(500, "INTERNAL_ERROR", "Internal server error",
                                     Str("Unknown error")))

loginCatch(error) ==
    IF error.isError
    THEN IF error.name = "UserNotConfirmedException"
         THEN Return(createErrorResponse(400, "USER_NOT_CONFIRMED", "User email not confirmed"))
         ELSE IF error.name = "NotAuthorizedException"
         THEN Return(createErrorResponse(401, "INVALID_CREDENTIALS", "Invalid email or password"))
         ELSE IF error.name = "UserNotFoundException"
         THEN Return(createErrorResponse(404, "USER_NOT_FOUND", "User not found"))
         ELSE Return(createErrorResponse4(500, "INTERNAL_ERROR", "Internal server error",
                                          Str(error.message)))
    ELSE Return(createErrorResponse4(500, "INTERNAL_ERROR", "Internal server error",
                                     Str("Unknown error")))

loginTry(ev) ==
    LET body == parseRequestBody(ev) IN
    IF ~body.ok THEN Raise(body.err)
    ELSE LET checked == validateRequiredFields(body.val, <<"email", "password">>) IN
    IF ~checked.ok THEN Raise(checked.err)
    ELSE Await([op |-> "AdminInitiateAuth", AuthFlow |-> "ADMIN_NO_SRP_AUTH",
                AuthParameters |-> [USERNAME |-> Member(body.val, "email"),
                                    PASSWORD |-> Member(body.val, "password")]])

\* Seeded fault: a login that sends the command a second time when the first
\* send failed.
loginAfterSendRetrying(outcome) ==
    IF outcome.kind = "reject"
    THEN Await([op |-> "AdminInitiateAuth", AuthFlow |-> "ADMIN_NO_SRP_AUTH",
                AuthParameters |-> [USERNAME |-> Undef, PASSWORD |-> Undef]])
    ELSE Return(createResponse(200, Obj([message |-> Str("Login successful")])))

loginAfterSend(outcome) ==
    IF outcome.kind = "reject" THEN Raise(outcome.err)
    ELSE LET result == outcome.output.AuthenticationResult IN
         IF ~Truthy(result)
         THEN Return(createErrorResponse(401, "AUTHENTICATION_FAILED", "Invalid credentials"))
         ELSE Return(createResponse(200,
                 Obj([message |-> Str("Login successful"),
                      data |-> Obj([accessToken |-> Member(result, "AccessToken"),
                                    idToken |-> Member(result, "IdToken"),
                                    refreshToken |-> Member(result, "RefreshToken"),
                                    expiresIn |-> Member(result, "ExpiresIn"),
                                    tokenType |-> Member(result, "TokenType")])])))

loginStart(ev) ==
    LET c == loginTry(ev) IN IF Thrown(c) THEN loginCatch(c.err) ELSE c
loginResume(outcome) ==
    LET c == loginAfterSend(outcome) IN IF Thrown(c) THEN loginCatch(c.err) ELSE c

registerCatch(error) ==
    IF error.isError
    THEN IF error.name = "UsernameExistsException"
         THEN Return(createErrorResponse(409, "USER_EXISTS", "User already exists"))
         ELSE IF error.name = "InvalidPasswordException"
         THEN Return(createErrorResponse(400, "INVALID_PASSWORD",
                                         "Password does not meet requirements"))
         ELSE Return(createErrorResponse4(500, "INTERNAL_ERROR", "Internal server error",
                                          Str(error.message)))
    ELSE Return(createErrorResponse4(500, "INTERNAL_ERROR", "Internal server error",
                                     Str("Unknown error")))

\* The attributes register sends with the create command, in order.
registerAttributes(body) ==
    <<[Name |-> "email", Value |-> Member(body, "email")],
      [Name |-> "email_verified", Value |-> Str("true")]>>
    \o
    (IF Truthy(Member(body, "firstName"))
     THEN <<[Name |-> "given_name", Value |-> Member(body, "firstName")]>> ELSE <<>>)
    \o
    (IF Truthy(Member(body, "lastName"))
     THEN <<[Name |-> "family_name", Value |-> Member(body, "lastName")]>> ELSE <<>>)

\* Seeded fault: a register that sends the create command without checking
\* the required fields of the body.
registerTryUnvalidated(ev) ==
    LET body == parseRequestBody(ev) IN
    IF ~body.ok THEN Raise(body.err)
    ELSE IF body.val = Null THEN Raise(TypeError)
    ELSE Await([op |-> "AdminCreateUser", Username |-> Member(body.val, "email"),
                UserAttributes |-> registerAttributes(body.val),
                MessageAction |-> "SUPPRESS",
                TemporaryPassword |-> Member(body.val, "password")])

registerTry(ev) ==
    LET body == parseRequestBody(ev) IN
    IF ~body.ok THEN Raise(body.err)
    ELSE LET checked == validateRequiredFields(body.val, <<"email", "password">>) IN
    IF ~checked.ok THEN Raise(checked.err)
    ELSE Await([op |-> "AdminCreateUser", Username |-> Member(body.val, "email"),
                UserAttributes |-> registerAttributes(body.val),
                MessageAction |-> "SUPPRESS",
                TemporaryPassword |-> Member(body.val, "password")])

\* Seeded fault: a register that goes on to the set-password command whatever
\* the answer to the create command was.
registerAfterCreateRegardless(ev, outcome) ==
    LET body == parseRequestBody(ev).val IN
    Await([op |-> "AdminSetUserPassword", Username |-> Member(body, "email"),
           Password |-> Member(body, "password"), Permanent |-> TRUE])

\* After `await cognitoClient.send(createCommand)`: the second command.  The
\* body was parsed and checked before the first command was sent.
registerAfterCreate(ev, outcome) ==
    IF outcome.kind = "reject" THEN Raise(outcome.err)
    ELSE LET body == parseRequestBody(ev).val IN
         Await([op |-> "AdminSetUserPassword", Username |-> Member(body, "email"),
                Password |-> Member(body, "password"), Permanent |-> TRUE])

\* After `await cognitoClient.send(setPasswordCommand)`.
registerAfterSetPassword(ev, outcome) ==
    IF outcome.kind = "reject" THEN Raise(outcome.err)
    ELSE LET body == parseRequestBody(ev).val IN
         Return(createResponse(201,
             Obj([message |-> Str("User registered successfully"),
                  data |-> Obj([email |-> Member(body, "email")])])))

registerStart(ev) ==
    LET c == registerTry(ev) IN IF Thrown(c) THEN registerCatch(c.err) ELSE c
registerResumeCreate(ev, outcome) ==
    LET c == registerAfterCreate(ev, outcome) IN IF Thrown(c) THEN registerCatch(c.err) ELSE c
registerResumeSetPassword(ev, outcome) ==
    LET c == registerAfterSetPassword(ev, outcome) IN IF Thrown(c) THEN registerCatch(c.err) ELSE c

refreshTokenCatch(error) ==
    IF error.isError
    THEN IF error.name = "NotAuthorizedException"
         THEN Return(createErrorResponse(401, "INVALID_REFRESH_TOKEN",
                                         "Invalid or expired refresh token"))
         ELSE Return(createErrorResponse4(500, "INTERNAL_ERROR", "Internal server error",
                                          Str(error.message)))
    ELSE Return(createErrorResponse4(500, "INTERNAL_ERROR", "Internal server error",
                                     Str("Unknown error")))

refreshTokenTry(ev) ==
    LET body == parseRequestBody(ev) IN
    IF ~body.ok THEN Raise(body.err)
    ELSE LET checked == validateRequiredFields(body.val, <<"refreshToken">>) IN
    IF ~checked.ok THEN Raise(checked.err)
    ELSE Await([op |-> "AdminInitiateAuth", AuthFlow |-> "REFRESH_TOKEN_AUTH",
                AuthParameters |-> [REFRESH_TOKEN |-> Member(body.val, "refreshToken")]])

refreshTokenAfterSend(outcome) ==
    IF outcome.kind = "reject" THEN Raise(outcome.err)
    ELSE LET result == outcome.output.AuthenticationResult IN
         IF ~Truthy(result)
         THEN Return(createErrorResponse(401, "REFRESH_FAILED", "Invalid refresh token"))
         ELSE Return(createResponse(200,
                 Obj([message |-> Str("Token refreshed successfully"),
                      data |-> Obj([accessToken |-> Member(result, "AccessToken"),
                                    idToken |-> Member(result, "IdToken"),
                                    expiresIn |-> Member(result, "ExpiresIn"),
                                    tokenType |-> Member(result, "TokenType")])])))

refreshTokenStart(ev) ==
    LET c == refreshTokenTry(ev) IN IF Thrown(c) THEN refreshTokenCatch(c.err) ELSE c
refreshTokenResume(outcome) ==
    LET c == refreshTokenAfterSend(outcome) IN IF Thrown(c) THEN refreshTokenCatch(c.err) ELSE c

logoutCatch(error) ==
    Return(createErrorResponse4(500, "INTERNAL_ERROR", "Internal server error",
               IF error.isError THEN Str(error.message) ELSE Str("Unknown error")))

\* Seeded fault: a logout that asks the provider to sign the user out.
logoutTryRevoking == Await([op |-> "AdminUserGlobalSignOut", Username |-> Undef])

\* logout takes no event; its try block builds the response and nothing else.
logoutTry == Return(createResponse(200, Obj([message |-> Str("Logout successful")])))

logoutHandler ==
    LET c == logoutTry IN IF Thrown(c) THEN logoutCatch(c.err) ELSE c

-----------------------------------------------------------------------------
(* The external identity provider: what cognitoClient.send may answer.     *)

ProviderErrorNames ==
    {"UserNotFoundException", "NotAuthorizedException", "UserNotConfirmedException",
     "UsernameExistsException", "InvalidPasswordException", "InternalErrorException"}

\* An SDK exception carries its name and a message; a rejection with a value
\* that is no Error is what the handlers' last branch is written for.
Rejections ==
    {Reject(Error(n, "provider failure")) : n \in ProviderErrorNames} \cup {Reject(NonError)}

AuthenticationResults(command) ==
    {Undef,
     Obj([AccessToken |-> Str("access-token"), IdToken |-> Str("id-token"),
          RefreshToken |-> IF command.AuthFlow = "REFRESH_TOKEN_AUTH" THEN Undef
                           ELSE Str("refresh-token"),
          ExpiresIn |-> Num(3600), TokenType |-> Str("Bearer")])}

GetUserOutputs(command) ==
    {[Username |-> command.Username,
      UserAttributes |-> [list |-> <<[Name |-> Str("email"), Value |-> Str("alice")],
                                     [Name |-> Str("email_verified"), Value |-> Str("true")],
                                     [Name |-> Str("given_name"), Value |-> Str("")],
                                     [Name |-> Str("family_name"), Value |-> Str("A")]>>],
      Enabled |-> Bool(TRUE), UserStatus |-> Str("CONFIRMED"),
      UserCreateDate |-> Str("2024-01-01T00:00:00.000Z"),
      UserLastModifiedDate |-> Str("2024-01-02T00:00:00.000Z")],
     [Username |-> command.Username, UserAttributes |-> Undef, Enabled |-> Undef,
      UserStatus |-> Undef, UserCreateDate |-> Undef, UserLastModifiedDate |-> Undef]}

Outcomes(command) ==
    Rejections \cup
    (IF command.op = "AdminInitiateAuth"
     THEN {Resolve([AuthenticationResult |-> r]) : r \in AuthenticationResults(command)}
     ELSE IF command.op = "AdminGetUser"
     THEN {Resolve(o) : o \in GetUserOutputs(command)}
     ELSE {Resolve([metadata |-> Obj(NoMembers)])})

\* The user pool after the provider answered: a resolved create command adds
\* its Username, a resolved delete command removes it.
UsersAfter(pool, command, outcome) ==
    IF outcome.kind # "resolve" THEN pool
    ELSE IF command.op = "AdminCreateUser" THEN pool \cup {command.Username}
    ELSE IF command.op = "AdminDeleteUser" THEN pool \ {command.Username}
    ELSE pool

-----------------------------------------------------------------------------
(* The requests the handlers are invoked with. *)

\* What a member of a body may be: absent, null, the empty string, a string.
FieldValues == {Undef, Null, Str(""), Str("alice"), Str("bob")}
FewFieldValues == {Undef, Null, Str(""), Str("alice")}
TokenValues == {Undef, Null, Str(""), Str("abc"), Str(JwtString)}

Bodies(fields, values) ==
    {[text |-> t, members |-> [f \in fields |-> Undef]] : t \in BodyTexts \ {BodyObject}}
    \cup {[text |-> BodyObject, members |-> m] : m \in [fields -> values]}

NoAuthorization == [Authorization |-> Undef, authorization |-> Undef]

BearerJwt == Str(BearerPrefix \o JwtString)

ProfileHeaders ==
    [Authorization : {Undef, Str(""), Str("Basic abc"), Str("Bearer"), Str("Bearer "),
                      Str("Bearer abc"), BearerJwt},
     authorization : {Undef, BearerJwt}]

Events(headerSets, fields, values) ==
    [headers : headerSets, body : Bodies(fields, values)]

Times == 0 .. MaxTime

Claims(subs, emails, usernames, iats, exps, uses) ==
    {Obj(c) : c \in [sub : subs, email : emails, username : usernames,
                      iat : iats, exp : exps, token_use : uses]}

\* What JwtString may encode when a profile handler is invoked.
ProfileTokens ==
    [payload : Claims({Undef}, {Undef, Str(""), Str("alice"), Str("bob")},
                      {Undef, Str("carol")}, {Undef}, {Undef}, {Undef})
               \cup {Str("junk"), Str("")},
     signatureValid : BOOLEAN]

\* What JwtString may encode when validate is invoked.
ValidateTokens ==
    [payload : Claims({Undef, Str("sub-1")}, {Undef, Str("alice")}, {Undef},
                      {Undef, Num(0)}, {Undef} \cup {Num(t) : t \in Times},
                      {Undef, Str("access"), Str("id"), Str("refresh")})
               \cup {Str("junk"), Str("")},
     signatureValid : BOOLEAN]

NoJwt == [payload |-> Str(""), signatureValid |-> FALSE]

\* The token string a request presents: in the body for validate, in the
\* Authorization header for the profile handlers.
PresentsJwt(ev) ==
    \/ BearerJwt \in {ev.headers.Authorization, ev.headers.authorization}
    \/ /\ "token" \in DOMAIN ev.body.members
       /\ ev.body.members.token = Str(JwtString)

\* JwtString's content matters only to a request that presents it.
TokensOf(ev, tokens) == IF PresentsJwt(ev) THEN tokens ELSE {NoJwt}

NoEvent == [headers |-> NoAuthorization,
            body |-> [text |-> BodyAbsent, members |-> NoMembers]]
NoResponse == [none |-> TRUE]
NoHelper == [none |-> TRUE]

-----------------------------------------------------------------------------
(* Invocations. *)

\* The handler's code ran up to completion `c`: it is suspended in a send, or
\* its promise resolved with a response, or its promise rejected.
Settle(c) ==
    IF c.kind = "await"
    THEN /\ pc' = "await"
         /\ calls' = Append(calls, c.command)
         /\ response' = NoResponse
         /\ escaped' = FALSE
    ELSE /\ pc' = "done"
         /\ calls' = calls
         /\ response' = (IF c.kind = "return" THEN c.value ELSE NoResponse)
         /\ escaped' = (c.kind = "throw")

Invoke(name, ev, tok, now, c) ==
    /\ handler' = name
    /\ event' = ev
    /\ jwt' = tok
    /\ currentTime' = now
    /\ Settle(c)
    /\ UNCHANGED <<answers, users, helperIn, helperOut>>

\* The handler `name` is suspended in its n-th send.
Suspended(name, n) == pc = "await" /\ handler = name /\ Len(calls) = n

\* The provider answers the command the handler is suspended in.
Answered(outcome, c) ==
    /\ users' = UsersAfter(users, calls[Len(calls)], outcome)
    /\ answers' = Append(answers, outcome)
    /\ Settle(c)
    /\ UNCHANGED <<handler, event, jwt, currentTime, helperIn, helperOut>>

validate ==
    /\ pc = "idle"
    /\ \E ev \in Events({NoAuthorization}, {"token"}, TokenValues) :
         \E tok \in TokensOf(ev, ValidateTokens), now \in Times :
           Invoke("validate", ev, tok, now, validateHandler(ev, tok, now))

getUser ==
    /\ pc = "idle"
    /\ \E ev \in Events(ProfileHeaders, {}, {Undef}) : \E tok \in TokensOf(ev, ProfileTokens) :
           Invoke("getUser", ev, tok, 0, getUserStart(ev, tok))

getUserSend ==
    /\ Suspended("getUser", 1)
    /\ \E o \in Outcomes(calls[1]) : Answered(o, getUserResume(o))

updateUser ==
    /\ pc = "idle"
    /\ \E ev \in Events(ProfileHeaders, {"firstName", "lastName", "email"}, FewFieldValues) :
         \E tok \in TokensOf(ev, ProfileTokens) :
           Invoke("updateUser", ev, tok, 0, updateUserStart(ev, tok))

updateUserSend ==
    /\ Suspended("updateUser", 1)
    /\ \E o \in Outcomes(calls[1]) : Answered(o, updateUserResume(o))

deleteUser ==
    /\ pc = "idle"
    /\ \E ev \in Events(ProfileHeaders, {}, {Undef}) : \E tok \in TokensOf(ev, ProfileTokens) :
           Invoke("deleteUser", ev, tok, 0, deleteUserStart(ev, tok))

deleteUserSend ==
    /\ Suspended("deleteUser", 1)
    /\ \E o \in Outcomes(calls[1]) : Answered(o, deleteUserResume(o))

changePassword ==
    /\ pc = "idle"
    /\ \E ev \in Events(ProfileHeaders, {"oldPassword", "newPassword"}, FieldValues) :
         \E tok \in TokensOf(ev, ProfileTokens) :
           Invoke("changePassword", ev, tok, 0, changePasswordStart(ev, tok))

changePasswordSend ==
    /\ Suspended("changePassword", 1)
    /\ \E o \in Outcomes(calls[1]) : Answered(o, changePasswordResume(o))

login ==
    /\ pc = "idle"
    /\ \E ev \in Events({NoAuthorization}, {"email", "password"}, FieldValues) :
           Invoke("login", ev, NoJwt, 0, loginStart(ev))

loginSend ==
    /\ Suspended("login", 1)
    /\ \E o \in Outcomes(calls[1]) : Answered(o, loginResume(o))

register ==
    /\ pc = "idle"
    /\ \E ev \in Events({NoAuthorization},
                        {"email", "password", "firstName", "lastName"}, FewFieldValues) :
           Invoke("register", ev, NoJwt, 0, registerStart(ev))

registerSendCreate ==
    /\ Suspended("register", 1)
    /\ \E o \in Outcomes(calls[1]) : Answered(o, registerResumeCreate(event, o))

registerSendSetPassword ==
    /\ Suspended("register", 2)
    /\ \E o \in Outcomes(calls[2]) : Answered(o, registerResumeSetPassword(event, o))

refreshToken ==
    /\ pc = "idle"
    /\ \E ev \in Events({NoAuthorization}, {"refreshToken"}, FieldValues) :
           Invoke("refreshToken", ev, NoJwt, 0, refreshTokenStart(ev))

refreshTokenSend ==
    /\ Suspended("refreshToken", 1)
    /\ \E o \in Outcomes(calls[1]) : Answered(o, refreshTokenResume(o))

\* logout ignores whatever request it is invoked for.
logout ==
    /\ pc = "idle"
    /\ \E ev \in Events(ProfileHeaders, {}, {Undef}) :
           Invoke("logout", ev, NoJwt, 0, logoutHandler)

\* The invocation is over; the next one starts from nothing but the provider's
\* user pool.
Finish ==
    /\ pc = "done"
    /\ pc' = "idle"
    /\ handler' = "none"
    /\ event' = NoEvent
    /\ jwt' = NoJwt
    /\ currentTime' = 0
    /\ calls' = <<>>
    /\ answers' = <<>>
    /\ response' = NoResponse
    /\ escaped' = FALSE
    /\ UNCHANGED <<users, helperIn, helperOut>>

Init ==
    /\ pc = "idle"
    /\ handler = "none"
    /\ event = NoEvent
    /\ jwt = NoJwt
    /\ currentTime = 0
    /\ calls = <<>>
    /\ answers = <<>>
    /\ response = NoResponse
    /\ escaped = FALSE
    /\ users = {}
    /\ helperIn = NoHelper
    /\ helperOut = NoHelper

Next ==
    \/ validate
    \/ getUser \/ getUserSend
    \/ updateUser \/ updateUserSend
    \/ deleteUser \/ deleteUserSend
    \/ changePassword \/ changePasswordSend
    \/ login \/ loginSend
    \/ register \/ registerSendCreate \/ registerSendSetPassword
    \/ refreshToken \/ refreshTokenSend
    \/ logout
    \/ Finish

Spec == Init /\ [][Next]_vars

-----------------------------------------------------------------------------
(* The request helpers applied on their own, to arguments no handler       *)
(* passes: getAuthHeader to header sets over free strings,                 *)
(* validateRequiredFields to arbitrary objects and lists of names.         *)

Alphabet == {"a", " "}

RECURSIVE Strings(_)
Strings(n) ==
    IF n = 0 THEN {""}
    ELSE Strings(n - 1) \cup {s \o c : s \in Strings(n - 1), c \in Alphabet}

\* Header values: none, or one of a few beginnings followed by a free string.
HeaderValues ==
    {Undef} \cup {Str(p \o s) : p \in {"", "Bearer", BearerPrefix, "bearer "},
                                s \in Strings(MaxStrLen)}

Idle ==
    /\ pc = "idle"
    /\ handler = "none"
    /\ event = NoEvent
    /\ jwt = NoJwt
    /\ currentTime = 0
    /\ calls = <<>>
    /\ answers = <<>>
    /\ response = NoResponse
    /\ escaped = FALSE
    /\ users = {}

InitAuthHeader ==
    /\ Idle
    /\ helperIn \in [headers : [Authorization : HeaderValues, authorization : HeaderValues]]
    /\ helperOut = NoHelper

getAuthHeaderCall ==
    /\ helperOut = NoHelper
    /\ helperOut' = getAuthHeader(helperIn)
    /\ UNCHANGED <<pc, handler, event, jwt, currentTime, calls, answers, response,
                   escaped, users, helperIn>>

SpecAuthHeader == InitAuthHeader /\ [][getAuthHeaderCall]_vars

FieldNames == {"a", "b", "c"}

\* Member values: absent, the falsy values, and truthy ones.
MemberValues == {Undef, Null, Str(""), Num(0), Bool(FALSE), Str("x"), Num(1)}

RECURSIVE Lists(_)
Lists(n) ==
    IF n = 0 THEN {<<>>}
    ELSE Lists(n - 1) \cup {Append(l, f) : l \in Lists(n - 1), f \in FieldNames}

InitRequiredFields ==
    /\ Idle
    /\ helperIn \in [data : {Null} \cup {Obj(m) : m \in [FieldNames -> MemberValues]},
                      requiredFields : Lists(MaxRequired)]
    /\ helperOut = NoHelper

validateRequiredFieldsCall ==
    /\ helperOut = NoHelper
    /\ helperOut' = validateRequiredFields(helperIn.data, helperIn.requiredFields)
    /\ UNCHANGED <<pc, handler, event, jwt, currentTime, calls, answers, response,
                   escaped, users, helperIn>>

SpecRequiredFields == InitRequiredFields /\ [][validateRequiredFieldsCall]_vars

-----------------------------------------------------------------------------
(* Properties of the handlers. *)

\* The response is an envelope: a status code, the fixed headers, and a
\* serialized object that carries a message.
WellFormedEnvelope(r) ==
    /\ DOMAIN r = {"statusCode", "headers", "body"}
    /\ r.statusCode \in 100 .. 599
    /\ r.headers = FixedHeaders
    /\ DOMAIN r.body = {"json"}
    /\ IsObj(r.body.json)
    /\ "message" \in DOMAIN r.body.json.obj

\* The error code of an error envelope, "" for a success envelope.
ErrorCode(r) == IF "error" \in DOMAIN r.body.json.obj THEN r.body.json.obj.error.str ELSE ""

\* The header value the request helpers read: Authorization unless it is
\* absent or empty, then authorization.
PresentedCredential(headers) ==
    IF headers.Authorization \in {Undef, Str("")} THEN headers.authorization
    ELSE headers.Authorization

\* C1: no invocation of any handler ends with a failure leaving the handler:
\* a finished invocation has returned a well-formed envelope, whatever the
\* request and whatever the provider answered, and a suspended invocation can
\* always go on.
C1_AlwaysAnEnvelope ==
    /\ escaped = FALSE
    /\ pc \in {"idle", "await", "done"}
    /\ pc = "done" => WellFormedEnvelope(response)
    /\ pc = "await" => ENABLED Next

\* C1 happens: getUser was handed a bearer credential that does not decode,
\* the property read on null threw inside the handler, and an envelope came out.
C1_Witness ==
    /\ pc = "done"
    /\ handler = "getUser"
    /\ event.headers.Authorization = Str("Bearer abc")
    /\ response.statusCode = 500

\* C2 as stated: no handler sends more than one command to the provider in an
\* invocation.
C2_AtMostOneCall == Len(calls) <= 1

\* C2 as amended: every handler but register sends at most one command in an
\* invocation, and has sent exactly one when it answers after reaching the
\* provider; register sends at most two, the create command and then the
\* set-password command; logout and validate send none.
C2_OneCallButRegister ==
    /\ handler # "register" => Len(calls) <= 1
    /\ handler \in {"logout", "validate", "none"} => calls = <<>>
    /\ handler = "register" =>
          /\ Len(calls) <= 2
          /\ Len(calls) >= 1 => calls[1].op = "AdminCreateUser"
          /\ Len(calls) = 2 => calls[2].op = "AdminSetUserPassword"
    /\ Len(answers) <= Len(calls)
    /\ pc = "done" => Len(answers) = Len(calls)
    /\ pc = "await" => Len(answers) + 1 = Len(calls)

\* C2 happens: login reached the provider, which failed, and login answered
\* after that one command.
C2_Witness ==
    /\ pc = "done"
    /\ handler = "login"
    /\ Len(calls) = 1
    /\ answers[1].kind = "reject"

\* The token validate was handed decodes: the body is an object whose token
\* member is the decodable string, and the payload is not the empty string.
DecodableTokenGiven ==
    /\ event.body.text = BodyObject
    /\ event.body.members.token = Str(JwtString)
    /\ jwt.payload # Str("")

\* The member m of the data of a success envelope, undefined when left out.
DataMember(r, m) == Member(Member(r.body.json, "data"), m)

\* C3: for a decodable token, validate answers 401 TOKEN_EXPIRED when exp is
\* less than the current time, whatever the token_use; otherwise 401
\* INVALID_TOKEN_TYPE when token_use is neither "access" nor "id"; otherwise
\* 200 with the token's own sub, email, token_use, exp and iat.
C3_ValidateDecision ==
    (handler = "validate" /\ pc = "done" /\ DecodableTokenGiven) =>
        LET exp == Member(jwt.payload, "exp")
            use == Member(jwt.payload, "token_use")
        IN  IF IsNum(exp) /\ exp.num < currentTime
            THEN response.statusCode = 401 /\ ErrorCode(response) = "TOKEN_EXPIRED"
            ELSE IF use \notin {Str("access"), Str("id")}
            THEN response.statusCode = 401 /\ ErrorCode(response) = "INVALID_TOKEN_TYPE"
            ELSE /\ response.statusCode = 200
                 /\ ErrorCode(response) = ""
                 /\ DataMember(response, "sub") = Member(jwt.payload, "sub")
                 /\ DataMember(response, "email") = Member(jwt.payload, "email")
                 /\ DataMember(response, "tokenType") = use
                 /\ DataMember(response, "expiresAt") = exp
                 /\ DataMember(response, "issuedAt") = Member(jwt.payload, "iat")

\* C3 happens: a token that expires at this very second is accepted.
C3_Witness ==
    /\ handler = "validate"
    /\ pc = "done"
    /\ DecodableTokenGiven
    /\ Member(jwt.payload, "exp") = Num(currentTime)
    /\ Member(jwt.payload, "sub") = Str("sub-1")
    /\ response.statusCode = 200

\* The body of the request is absent, empty, or an object with none of the
\* members firstName, lastName and email.
NothingToUpdate ==
    \/ event.body.text \in {BodyAbsent, ""}
    \/ /\ event.body.text = BodyObject
       /\ \A f \in {"firstName", "lastName", "email"} : event.body.members[f] = Undef

\* C4 as stated: every updateUser invocation with nothing to update answers 400
\* NO_UPDATES and sends nothing to the provider.
C4_NoUpdatesAlways ==
    (handler = "updateUser" /\ NothingToUpdate) =>
        /\ pc = "done"
        /\ response.statusCode = 400
        /\ ErrorCode(response) = "NO_UPDATES"
        /\ calls = <<>>

\* C4 as amended: an updateUser invocation with nothing to update sends nothing
\* to the provider; it answers 400 NO_UPDATES when the request presents a bearer
\* credential that decodes, and 500 INTERNAL_ERROR when it does not (the
\* credential is read before the body).
C4_NoUpdatesWhenAuthenticated ==
    (handler = "updateUser" /\ NothingToUpdate) =>
        /\ pc = "done"
        /\ calls = <<>>
        /\ IF PresentedCredential(event.headers) = BearerJwt
           THEN response.statusCode = 400 /\ ErrorCode(response) = "NO_UPDATES"
           ELSE response.statusCode = 500 /\ ErrorCode(response) = "INTERNAL_ERROR"

\* C4 happens: an authenticated updateUser with an object body that has none
\* of the three members.
C4_Witness ==
    /\ handler = "updateUser"
    /\ pc = "done"
    /\ event.body.text = BodyObject
    /\ NothingToUpdate
    /\ PresentedCredential(event.headers) = BearerJwt
    /\ response.statusCode = 400

\* C5: logout answers 200 {message: "Logout successful"} for every request and
\* every state of the provider, and sends nothing to the provider.
C5_LogoutAlwaysSucceeds ==
    handler = "logout" =>
        /\ pc = "done"
        /\ response.statusCode = 200
        /\ response.body.json = Obj([message |-> Str("Logout successful")])
        /\ calls = <<>>
        /\ answers = <<>>

\* C5 happens: logout was invoked with a malformed credential while the
\* provider held a user.
C5_Witness ==
    /\ handler = "logout"
    /\ pc = "done"
    /\ event.headers.Authorization = Str("Basic abc")
    /\ users # {}

\* The members the handler requires of its body.
RequiredOf(name) ==
    IF name \in {"login", "register"} THEN {"email", "password"}
    ELSE IF name = "refreshToken" THEN {"refreshToken"}
    ELSE IF name = "changePassword" THEN {"oldPassword", "newPassword"}
    ELSE {}

\* The body is an object that lacks a required member, or holds a falsy one.
RequiredFieldMissing ==
    /\ event.body.text \in {BodyAbsent, "", BodyObject}
    /\ \E f \in RequiredOf(handler) :
          event.body.text # BodyObject \/ event.body.members[f] \in {Undef, Null, Str("")}

\* C6: when login, register, refreshToken or changePassword (with a bearer
\* credential that decodes) gets a body in which a required member is absent
\* or falsy, the response has status 400.
C6_MissingFieldIs400 ==
    (/\ pc = "done"
     /\ handler \in {"login", "register", "refreshToken", "changePassword"}
     /\ handler = "changePassword" => PresentedCredential(event.headers) = BearerJwt
     /\ RequiredFieldMissing)
    => response.statusCode = 400

\* The error codes of section 7 of the specification.
Taxonomy ==
    {"MISSING_TOKEN", "INVALID_TOKEN", "TOKEN_EXPIRED", "INVALID_TOKEN_TYPE",
     "USER_NOT_FOUND", "USER_EXISTS", "INVALID_PASSWORD", "INVALID_CREDENTIALS",
     "AUTHENTICATION_FAILED", "USER_NOT_CONFIRMED", "NO_UPDATES", "INTERNAL_ERROR"}

\* The exception names the catch block of a handler tells apart.
RecognisedBy(name) ==
    IF name \in {"getUser", "updateUser", "deleteUser"} THEN {"UserNotFoundException"}
    ELSE IF name = "changePassword" THEN {"UserNotFoundException", "InvalidPasswordException"}
    ELSE IF name = "login"
    THEN {"UserNotConfirmedException", "NotAuthorizedException", "UserNotFoundException"}
    ELSE IF name = "register" THEN {"UsernameExistsException", "InvalidPasswordException"}
    ELSE IF name = "refreshToken" THEN {"NotAuthorizedException"}
    ELSE {}

\* The handler answered after the provider failed with an exception it does
\* not recognise.
UnrecognisedFailure ==
    /\ pc = "done"
    /\ answers # <<>>
    /\ answers[Len(answers)].kind = "reject"
    /\ answers[Len(answers)].err.name \notin RecognisedBy(handler)

\* C7 as stated: every error envelope carries a code of the taxonomy.
C7_CodesInTaxonomy ==
    (pc = "done" /\ "error" \in DOMAIN response.body.json.obj) =>
        ErrorCode(response) \in Taxonomy

\* C7 as amended: every error envelope carries a code of the taxonomy or, from
\* refreshToken, one of REFRESH_FAILED and INVALID_REFRESH_TOKEN; and a provider
\* failure whose name the handler does not recognise is answered 500
\* INTERNAL_ERROR.
C7_CodesInWiderTaxonomy ==
    /\ (pc = "done" /\ "error" \in DOMAIN response.body.json.obj) =>
          \/ ErrorCode(response) \in Taxonomy
          \/ /\ handler = "refreshToken"
             /\ ErrorCode(response) \in {"REFRESH_FAILED", "INVALID_REFRESH_TOKEN"}
    /\ UnrecognisedFailure =>
          response.statusCode = 500 /\ ErrorCode(response) = "INTERNAL_ERROR"

\* C7 happens: the provider failed login with an exception no handler
\* recognises.
C7_Witness ==
    /\ handler = "login"
    /\ UnrecognisedFailure
    /\ answers[1].err.name = "InternalErrorException"
    /\ response.statusCode = 500

\* The handlers that act on the account a token names.
ProfileHandlers == {"getUser", "updateUser", "deleteUser", "changePassword"}

\* C8: the account a provider command of a profile handler is applied to is
\* never taken from a claim of a token whose signature is not the provider's:
\* a command whose Username is the email or username claim of the presented
\* token is sent only for a token with a valid signature.
C8_ClaimsNotTrusted ==
    (/\ handler \in ProfileHandlers
     /\ calls # <<>>
     /\ Truthy(calls[1].Username)
     /\ calls[1].Username \in {Member(jwt.payload, "email"), Member(jwt.payload, "username")})
    => jwt.signatureValid

-----------------------------------------------------------------------------
(* Properties of the request helpers. *)

MissingCredential == Throw(Error("Error", "Authorization header is required"))
MalformedCredential == Throw(Error("Error", "Authorization header must be a Bearer token"))

\* The suffixes of a string.
Suffixes(x) == {SubSeq(x, i, Len(x)) : i \in 1 .. Len(x) + 1}

\* What the claim requires of getAuthHeader for the header value v.
BearerContract(v, out) ==
    IF \E s \in Suffixes(v.str) : v.str = "Bearer " \o s
    THEN \A s \in Suffixes(v.str) : v.str = "Bearer " \o s => out = Ok(Str(s))
    ELSE out = MalformedCredential

\* C9 as stated: with no authorization entry getAuthHeader fails with the
\* missing-credential error; for every value of the entry (Authorization when
\* there is one, else authorization) that does not start with "Bearer " it
\* fails with the malformed-credential error; for "Bearer " + s it returns s.
C9_BearerOfEntry ==
    helperOut # NoHelper =>
        LET h == helperIn.headers
            v == IF h.Authorization # Undef THEN h.Authorization ELSE h.authorization
        IN  IF v = Undef THEN helperOut = MissingCredential
            ELSE BearerContract(v, helperOut)

\* C9 as amended: an entry whose value is empty counts as no entry.  With no
\* non-empty Authorization or authorization entry getAuthHeader fails with the
\* missing-credential error; otherwise, for the value of the first non-empty
\* one of the two, it fails with the malformed-credential error when the value
\* does not start with "Bearer ", and returns exactly s when it is "Bearer " + s.
C9_BearerOfNonEmptyEntry ==
    helperOut # NoHelper =>
        LET v == PresentedCredential(helperIn.headers)
        IN  IF v \in {Undef, Str("")} THEN helperOut = MissingCredential
            ELSE BearerContract(v, helperOut)

\* C9 happens: the value is "Bearer" and a free string that begins with the
\* space, and the rest came out.
C9_Witness ==
    /\ helperIn.headers.Authorization = Str("Bearer a ")
    /\ helperOut = Ok(Str("a "))

\* The falsy values of JavaScript among the member values.
Falsy == {Undef, Null, Str(""), Num(0), Bool(FALSE)}

\* The entries of `required`, in order, that `object` lacks or holds falsy.
RECURSIVE AbsentOrFalsy(_, _)
AbsentOrFalsy(object, required) ==
    IF required = <<>> THEN <<>>
    ELSE (IF object[Head(required)] \in Falsy THEN <<Head(required)>> ELSE <<>>)
         \o AbsentOrFalsy(object, Tail(required))

\* The names of a list, separated by ", ".
RECURSIVE Enumerated(_)
Enumerated(names) ==
    IF Len(names) = 1 THEN names[1]
    ELSE names[1] \o ", " \o Enumerated(Tail(names))

\* C10: for every object and every list of required names,
\* validateRequiredFields fails exactly when a named member is absent or falsy,
\* the failure enumerates every such member in the order of the list, and it
\* returns nothing and changes nothing when none is missing.
C10_EveryMissingField ==
    (helperOut # NoHelper /\ "data" \in DOMAIN helperIn /\ IsObj(helperIn.data)) =>
        LET missing == AbsentOrFalsy(helperIn.data.obj, helperIn.requiredFields)
        IN  IF missing = <<>> THEN helperOut = Ok(Undef)
            ELSE helperOut =
                   Throw(Error("Error", "Missing required fields: " \o Enumerated(missing)))

\* C10 happens: two of three required members are missing, one absent and one
\* falsy, and the failure names both, in the order of the list.
C10_Witness ==
    /\ helperIn.requiredFields = <<"c", "a", "b">>
    /\ IsObj(helperIn.data)
    /\ helperIn.data.obj.a = Str("x")
    /\ helperIn.data.obj.b = Num(0)
    /\ helperIn.data.obj.c = Undef
    /\ helperOut = Throw(Error("Error", "Missing required fields: c, b"))

-----------------------------------------------------------------------------
(* Properties of the handlers: the order of validation and provider calls. *)

\* The handlers that parse the body of the request.
ParsesBody == {"validate", "updateUser", "changePassword", "login", "register", "refreshToken"}

\* The body of the request is text that is not JSON.
BodyParsingFails ==
    /\ handler \in ParsesBody
    /\ event.body.text \notin {BodyAbsent, "", "null", BodyObject}

\* The request of a profile handler has no bearer credential, or one that is
\* not "Bearer " and a token.
CredentialMissing ==
    /\ handler \in ProfileHandlers
    /\ PresentedCredential(event.headers) \in {Undef, Str("")}

CredentialMalformed ==
    /\ handler \in ProfileHandlers
    /\ PresentedCredential(event.headers) \notin {Undef, Str("")}
    /\ LET v == PresentedCredential(event.headers).str
       IN  \A s \in Suffixes(v) : v # "Bearer " \o s

\* The token handed over does not decode: jwt.decode yields null for the
\* bearer token of a profile handler, or nothing truthy for the token member
\* of the body of validate.
TokenCannotBeDecoded ==
    \/ /\ handler \in ProfileHandlers
       /\ PresentedCredential(event.headers) \notin {Undef, Str("")}
       /\ LET v == PresentedCredential(event.headers).str
          IN  \E s \in Suffixes(v) : v = "Bearer " \o s /\ s # JwtString
    \/ /\ handler = "validate"
       /\ event.body.text = BodyObject
       /\ event.body.members.token \notin {Undef, Null, Str("")}
       /\ ~DecodableTokenGiven

\* validate was handed a body without a token.
TokenFieldMissing ==
    /\ handler = "validate"
    /\ event.body.text \in {BodyAbsent, "", BodyObject}
    /\ event.body.text = BodyObject => event.body.members.token \in {Undef, Null, Str("")}

\* C11: in every handler, when the body it parses is not JSON, the bearer
\* credential it reads is missing or malformed, the token it decodes does not
\* decode, or a member it requires of the body is missing, the invocation ends
\* at once with an error envelope and no command is sent to the provider in it.
C11_ValidationBeforeProvider ==
    (\/ BodyParsingFails
     \/ CredentialMissing
     \/ CredentialMalformed
     \/ TokenCannotBeDecoded
     \/ RequiredFieldMissing
     \/ TokenFieldMissing)
    => /\ calls = <<>>
       /\ answers = <<>>
       /\ pc = "done"
       /\ escaped = FALSE
       /\ response.statusCode >= 400

\* C11 happens: changePassword got a bearer token that names an account and a
\* body with the old password but no new one, and answered without a command.
C11_Witness ==
    /\ handler = "changePassword"
    /\ pc = "done"
    /\ PresentedCredential(event.headers) = BearerJwt
    /\ Member(jwt.payload, "email") = Str("alice")
    /\ event.body.text = BodyObject
    /\ event.body.members.oldPassword = Str("alice")
    /\ event.body.members.newPassword = Undef
    /\ calls = <<>>
    /\ response.statusCode = 500

\* C12: register sends the set-password command only after the provider
\* resolved the create command, and answers 201 exactly when the provider
\* resolved both; when the create command is rejected no second command is
\* sent and the answer is an error; when the set-password command is rejected
\* after the create command was resolved the answer is an error, no further
\* command is sent, and the created user is still in the provider's pool.
C12_RegisterOrdering ==
    handler = "register" =>
        /\ Len(calls) = 2 =>
              /\ answers # <<>>
              /\ answers[1].kind = "resolve"
              /\ calls[1].op = "AdminCreateUser"
              /\ calls[2] = [op |-> "AdminSetUserPassword", Username |-> calls[1].Username,
                             Password |-> calls[1].TemporaryPassword, Permanent |-> TRUE]
        /\ (answers # <<>> /\ answers[1].kind = "reject") =>
              /\ Len(calls) = 1
              /\ pc = "done"
              /\ response.statusCode >= 400
        /\ pc = "done" =>
              (response.statusCode = 201 <=>
                  (Len(answers) = 2 /\ \A i \in 1 .. 2 : answers[i].kind = "resolve"))
        /\ (Len(answers) = 2 /\ answers[2].kind = "reject") =>
              /\ pc = "done"
              /\ response.statusCode >= 400
              /\ Len(calls) = 2
              /\ calls[1].Username \in users

\* C12 happens: the provider created the user and then rejected the password,
\* and register answered with an error while the user exists.
C12_Witness ==
    /\ handler = "register"
    /\ pc = "done"
    /\ Len(answers) = 2
    /\ answers[1].kind = "resolve"
    /\ answers[2] = Reject(Error("InvalidPasswordException", "provider failure"))
    /\ response.statusCode = 400
    /\ calls[1].Username = Str("alice")
    /\ Str("alice") \in users

\* The request with another old password and nothing else changed.
WithOldPassword(ev, v) == [ev EXCEPT !.body.members.oldPassword = v]

\* The non-empty passwords a body may hold.
Passwords == {v \in FieldValues : IsStr(v) /\ v.str # ""}

\* changePassword was handed a bearer token that decodes and a body with a
\* non-empty old and new password.
PasswordChangeRequested ==
    /\ handler = "changePassword"
    /\ PresentedCredential(event.headers) = BearerJwt
    /\ event.body.text = BodyObject
    /\ event.body.members.oldPassword \in Passwords
    /\ event.body.members.newPassword \in Passwords

\* C13: for changePassword with a bearer token that decodes and non-empty old
\* and new passwords, the one command sent sets the new password, permanently,
\* for the account the token names and holds nothing of the old password; the
\* same request with any other old password sends the same command; and the
\* response is the one the provider's answer alone determines.
C13_OldPasswordIgnored ==
    PasswordChangeRequested =>
        /\ calls = <<[op |-> "AdminSetUserPassword",
                      Username |-> Or(Member(jwt.payload, "email"),
                                      Or(Member(jwt.payload, "username"), Str(""))),
                      Password |-> event.body.members.newPassword,
                      Permanent |-> TRUE]>>
        /\ \A v \in Passwords :
              changePasswordStart(WithOldPassword(event, v), jwt) = Await(calls[1])
        /\ pc = "done" =>
              /\ Len(answers) = 1
              /\ Return(response) = changePasswordResume(answers[1])
              /\ answers[1].kind = "resolve" =>
                    response = createResponse(200,
                                   Obj([message |-> Str("Password changed successfully")]))

\* C13 happens: the password was changed on a request whose old password is
\* not the one the request itself sets, with nothing checked.
C13_Witness ==
    /\ PasswordChangeRequested
    /\ pc = "done"
    /\ Member(jwt.payload, "email") = Str("alice")
    /\ event.body.members.oldPassword = Str("bob")
    /\ event.body.members.newPassword = Str("alice")
    /\ calls[1].Password = Str("alice")
    /\ answers[1].kind = "resolve"
    /\ response.statusCode = 200

\* C14: when validate is handed a decodable token whose payload has no exp
\* claim, it never answers TOKEN_EXPIRED: it answers 200, with no expiresAt,
\* when token_use is "access" or "id" and 401 INVALID_TOKEN_TYPE otherwise, and
\* it answers the same at every current time.
C14_NoExpNeverExpired ==
    (/\ handler = "validate"
     /\ pc = "done"
     /\ DecodableTokenGiven
     /\ Member(jwt.payload, "exp") = Undef)
    => /\ ErrorCode(response) # "TOKEN_EXPIRED"
       /\ IF Member(jwt.payload, "token_use") \in {Str("access"), Str("id")}
          THEN /\ response.statusCode = 200
               /\ ErrorCode(response) = ""
               /\ DataMember(response, "expiresAt") = Undef
          ELSE /\ response.statusCode = 401
               /\ ErrorCode(response) = "INVALID_TOKEN_TYPE"
       /\ \A now \in Times : validateHandler(event, jwt, now) = Return(response)

\* C14 happens: an id token without exp was accepted at the latest time of the
\* clock.
C14_Witness ==
    /\ handler = "validate"
    /\ pc = "done"
    /\ DecodableTokenGiven
    /\ IsObj(jwt.payload)
    /\ Member(jwt.payload, "exp") = Undef
    /\ Member(jwt.payload, "token_use") = Str("id")
    /\ currentTime = MaxTime
    /\ response.statusCode = 200

=============================================================================
